---- MODULE Spec2Model ----
(***************************************************************************)
(* Model of runpipeline.c: a parent process parses its command line into   *)
(* programs separated by "--", creates one pipe between each pair of       *)
(* adjacent programs, forks one child per program (the child redirects     *)
(* stdin/stdout, closes the pipe descriptors and calls execvp), then waits *)
(* for the children in index order and prints their exit values.           *)
(*                                                                         *)
(* Descriptor tables are functions from open descriptor numbers to open    *)
(* file descriptions; pipe() hands out the two lowest free numbers, dup2   *)
(* and close act on numbers, fork copies the table and exit empties it.    *)
(* The external commands are modelled by what their name stands for (see   *)
(* the section "external commands").                                       *)
(***************************************************************************)
EXTENDS Integers, Sequences, FiniteSets, TLC

\* ------------------------------------------------------------------------
\* Program constants
\* ------------------------------------------------------------------------
MAX_NUM_PROGRAMS == 10
FD_STDIN == 0
FD_STDOUT == 1
PIPEFD_READ == 0
PIPEFD_WRITE == 1
EXIT_FAILURE == 1

\* Signal numbers and the pid the kernel gives the first child.
SIGABRT == 6
SIGPIPE == 13
FIRST_PID == 100

\* ------------------------------------------------------------------------
\* Bounds of the model
\* ------------------------------------------------------------------------
\* Longest token list (argv[1..]) enumerated exhaustively.
MaxTokens == 5
\* Most items a generating command writes to its stdout.
MaxWrites == 2
\* Capacity of a pipe's kernel buffer, in items.
PipeCap == 1

\* ------------------------------------------------------------------------
\* Tokens
\* ------------------------------------------------------------------------
Delim == "--"
NULL == "NULL"
ProgName == "runpipeline"

Min(S) == CHOOSE x \in S : \A y \in S : x <= y

\* ------------------------------------------------------------------------
\* die / check_return_value / check_pointer
\* ------------------------------------------------------------------------
\* die(s) ends the calling process with EXIT_FAILURE; the result of a step
\* that may die carries the message, "" when it did not die.
NoErr == ""

\* check_return_value(rv, s): the message it dies with, or NoErr.
check_return_value(rv, s) == IF rv < 0 THEN s ELSE NoErr

\* check_pointer(p): p is modelled by whether the allocation succeeded.
check_pointer(ok) == IF ok THEN NoErr ELSE "Pointer is NULL."

\* ------------------------------------------------------------------------
\* init_program / parse_command_line
\* ------------------------------------------------------------------------
\* The Program structure after init_program: argv holds the initialised
\* slots of the allocated array (slot 0 is NULL).
init_program(argc) ==
    [argv |-> <<NULL>>, argc |-> 0, pid |-> -1, fd_in |-> -1, fd_out |-> -1]

\* The inner loop storing the tokens from the end of the array backwards.
RECURSIVE CopyArgsReversed(_, _, _)
CopyArgsReversed(av, cur_arg, acc) ==
    IF cur_arg < Len(av) /\ av[cur_arg + 1] # Delim
    THEN CopyArgsReversed(av, cur_arg + 1, <<av[cur_arg + 1]>> \o acc)
    ELSE [cur_arg |-> cur_arg, args |-> acc]

\* The inner while loop of parse_command_line: copies tokens until the end
\* of argv or a "--".  av is the C argv (av[1] is C's argv[0]); cur_arg is
\* the C index.
RECURSIVE CopyArgs(_, _, _)
CopyArgs(av, cur_arg, acc) ==
    IF cur_arg < Len(av) /\ av[cur_arg + 1] # Delim
    THEN CopyArgs(av, cur_arg + 1, Append(acc, av[cur_arg + 1]))
    ELSE [cur_arg |-> cur_arg, args |-> acc]

\* One more element at index n of a 0-based array of n elements.
Push(arr, n, x) == [k \in 0..n |-> IF k = n THEN x ELSE arr[k]]

\* The outer while loop.  nomem is the index of the init_program call whose
\* malloc returns NULL (-1: none).  The result is [err, count, progs]: err
\* is the message of the die() that ended the parse, NoErr if it returned.
RECURSIVE ParseLoop(_, _, _, _, _, _)
ParseLoop(progs, max_num_progs, av, nomem, cur_arg, prog_count) ==
    IF ~(cur_arg < Len(av))
    THEN [err |-> NoErr, count |-> prog_count, progs |-> progs]
    ELSE IF prog_count = max_num_progs
    THEN [err |-> "Too many programs.", count |-> prog_count, progs |-> progs]
    ELSE IF check_pointer(nomem # prog_count) # NoErr
    THEN [err |-> check_pointer(nomem # prog_count), count |-> prog_count,
          progs |-> progs]
    ELSE
      LET c    == CopyArgs(av, cur_arg, <<>>)
          ia   == Len(c.args)
          p    == [init_program(Len(av)) EXCEPT
                      !.argv = Append(c.args, NULL), !.argc = ia]
          next == Push(progs, prog_count, p)
      IN IF ia = 0
         THEN [err |-> "Empty program.", count |-> prog_count + 1, progs |-> next]
         ELSE IF c.cur_arg + 1 = Len(av)
         THEN [err |-> "Last program is empty.", count |-> prog_count + 1,
               progs |-> next]
         ELSE ParseLoop(next, max_num_progs, av, nomem, c.cur_arg + 1,
                        prog_count + 1)

NoPrograms == [k \in {} |-> init_program(0)]

\* parse_command_line without the check for a trailing "--".
parse_allows_trailing(max_num_progs, av, nomem) ==
    LET r == ParseLoop(NoPrograms, max_num_progs, av, nomem, 1, 0)
    IN IF r.err = "Last program is empty." THEN [r EXCEPT !.err = NoErr] ELSE r

\* parse_command_line testing prog_count > max_num_progs.
parse_off_by_one(max_num_progs, av, nomem) ==
    ParseLoop(NoPrograms, max_num_progs + 1, av, nomem, 1, 0)

parse_command_line(max_num_progs, av, nomem) ==
    ParseLoop(NoPrograms, max_num_progs, av, nomem, 1, 0)

\* ------------------------------------------------------------------------
\* Descriptor tables and the system calls on them
\* ------------------------------------------------------------------------
\* Open file descriptions.
Tty(n) == [kind |-> "tty", idx |-> n, end |-> "-"]
PipeEnd(p, e) == [kind |-> "pipe", idx |-> p, end |-> e]
NoFds == [fd \in {} |-> Tty(0)]

\* The lowest descriptor number that is free in table t, apart from `but`.
LowestFree(t, but) ==
    Min({fd \in 0..(Cardinality(DOMAIN t) + Cardinality(but)) :
            fd \notin DOMAIN t /\ fd \notin but})

\* close(fd): [rv, t].  EBADF when fd is not open.
SysClose(t, fd) ==
    IF fd \in DOMAIN t
    THEN [rv |-> 0, t |-> [x \in DOMAIN t \ {fd} |-> t[x]]]
    ELSE [rv |-> -1, t |-> t]

\* dup2(oldfd, newfd): [rv, t].  EBADF when oldfd is not open; nothing
\* happens when oldfd = newfd; otherwise newfd is (closed and) made a
\* second reference to oldfd's description.
SysDup2(t, oldfd, newfd) ==
    IF oldfd \notin DOMAIN t
    THEN [rv |-> -1, t |-> t]
    ELSE IF oldfd = newfd
    THEN [rv |-> newfd, t |-> t]
    ELSE [rv |-> newfd,
          t  |-> [x \in DOMAIN t \cup {newfd} |-> IF x = newfd THEN t[oldfd] ELSE t[x]]]

\* pipe(fd) creating pipe number p: fd[PIPEFD_READ] and fd[PIPEFD_WRITE]
\* are the two lowest free numbers.
SysPipe(t, p) ==
    LET r == LowestFree(t, {})
        w == LowestFree(t, {r})
    IN [fd |-> [e \in {PIPEFD_READ, PIPEFD_WRITE} |-> IF e = PIPEFD_READ THEN r ELSE w],
        t  |-> [x \in DOMAIN t \cup {r, w} |->
                  IF x = r THEN PipeEnd(p, "r")
                  ELSE IF x = w THEN PipeEnd(p, "w") ELSE t[x]]]

\* The wait status of a process: exit(code) and death by signal sig.
StatusExited(code) == (code % 256) * 256
StatusSignaled(sig) == sig
WEXITSTATUS(status) == (status \div 256) % 256
WIFEXITED(status) == status % 128 = 0

\* ------------------------------------------------------------------------
\* External commands
\* ------------------------------------------------------------------------
\* What execvp(argv[0], argv) leads to depends on the command named by
\* argv[0]:
\*   "gen"    writes some items to its stdout, then exits with 0
\*   "cat"    copies its stdin to its stdout until end of file, exits with 0
\*   "true"   exits with 0          "false"  exits with 1
\*   "exit"   exits with some code in 0..255 (as `sh -c "exit K"`)
\*   "crash"  calls abort() and dies by SIGABRT
\*   "nosuch" is not an executable: execvp fails
\* Any other name behaves as "true".
ExecFails(cmd) == cmd = "nosuch"
Reads(cmd) == cmd = "cat"
Aborts(cmd) == cmd = "crash"
ExitCodes(cmd) ==
    IF cmd = "exit" THEN 0..255
    ELSE IF cmd = "false" THEN {1}
    ELSE {0}
StartBudgets(cmd) == IF cmd = "gen" THEN 0..MaxWrites ELSE {0}

\* ------------------------------------------------------------------------
\* State
\* ------------------------------------------------------------------------
VARIABLES
    argv,          \* main's argv, argv[1] being C's argv[0]
    startFds,      \* the descriptor table the parent was started with
    pc,            \* where the parent is: main, pipes, fork, parent, wait, done, died
    i,             \* the loop index of the loop the parent is in
    num_programs,  \* main's num_programs (-1 before parse_command_line returns)
    programs,      \* main's programs[], the initialised elements, from 0
    fds,           \* the parent's descriptor table (empty once it has exited)
    pipes,         \* per pipe created, the number of items in its buffer
    child,         \* per forked child, from 0: its state
    log,           \* what the parent has printed on stderr
    exitCode,      \* the parent's exit code (-1 while it runs)
    overtook       \* a stage has terminated while an earlier one was alive

vars == <<argv, startFds, pc, i, num_programs, programs, fds, pipes, child,
          log, exitCode, overtook>>

NoPipes == [p \in {} |-> 0]
NoChildren == [k \in {} |-> 0]

Line(msg, idx, name, status) ==
    [msg |-> msg, idx |-> idx, name |-> name, status |-> status]

\* Whether descriptor table t holds end e of pipe p.
HoldsEnd(t, p, e) == \E fd \in DOMAIN t : t[fd] = PipeEnd(p, e)

\* Whether some process holds end e of pipe p open.
EndOpen(p, e) ==
    \/ HoldsEnd(fds, p, e)
    \/ \E k \in DOMAIN child : HoldsEnd(child[k].fds, p, e)

Alive(k) == child[k].phase \in {"forked", "running"}

\* ------------------------------------------------------------------------
\* Initial states
\* ------------------------------------------------------------------------
\* All token lists of length 0..n over the tokens T.
ListsUpTo(T, n) == UNION {[1..m -> T] : m \in 0..n}

\* g one-token programs, separated by "--".
Chain(cmd, g) == [x \in 1..(2 * g - 1) |-> IF x % 2 = 1 THEN cmd ELSE Delim]

ShortLists == ListsUpTo({Delim, "gen", "cat"}, MaxTokens)

OtherLists ==
    { <<"exit">>, <<"false">>, <<"crash">>, <<"nosuch">>, <<"true", "-v">>,
      <<"gen", Delim, "crash">>, <<"crash", Delim, "cat">>,
      <<"nosuch", Delim, "cat">>, <<"gen", Delim, "false">>,
      <<"gen", Delim, "nosuch", Delim, "cat">>,
      <<"gen", "-n", Delim, "cat", "-u", "-v">> }

\* Chains of 1..MAX_NUM_PROGRAMS+2 programs, and chains with a trailing, a
\* doubled and a leading delimiter.
LongLists ==
    { Chain("nosuch", g) : g \in 1..(MAX_NUM_PROGRAMS + 2) }
    \cup { Chain("nosuch", MAX_NUM_PROGRAMS) \o <<Delim>>,
           Chain("nosuch", 2) \o <<Delim, Delim>> \o Chain("nosuch", MAX_NUM_PROGRAMS),
           <<Delim>> \o Chain("nosuch", MAX_NUM_PROGRAMS + 1) }

\* The parent is started with stderr open and with stdin and stdout each
\* open or closed.
StartTables ==
    { [fd \in S |-> Tty(fd)] : S \in { {0, 1, 2}, {1, 2}, {0, 2}, {2} } }

InitWith(lists, tables) ==
    /\ argv \in { <<ProgName>> \o t : t \in lists }
    /\ startFds \in tables
    /\ fds = startFds
    /\ pc = "main"
    /\ i = 0
    /\ num_programs = -1
    /\ programs = NoPrograms
    /\ pipes = NoPipes
    /\ child = NoChildren
    /\ log = <<>>
    /\ exitCode = -1
    /\ overtook = FALSE

Init == InitWith(ShortLists \cup OtherLists, StartTables)

\* ------------------------------------------------------------------------
\* The parent
\* ------------------------------------------------------------------------
\* die(s) in the parent: the message goes to stderr, the process exits with
\* EXIT_FAILURE and its descriptors are closed.
DieAfter(printed, s) ==
    /\ pc' = "died"
    /\ exitCode' = EXIT_FAILURE
    /\ fds' = NoFds
    /\ log' = Append(printed, Line("Error", -1, s, EXIT_FAILURE))

Die(s) == DieAfter(log, s)

\* main up to the return of parse_command_line, malloc() returning NULL in
\* one of the init_program calls numbered in nomems (-1: in none).
MainWith(nomems) ==
    /\ pc = "main"
    /\ IF Len(argv) <= 1
       THEN /\ Die("Specify at least one program to run. Multiple programs are separated by --")
            /\ UNCHANGED <<i, num_programs, programs>>
       ELSE \E nomem \in nomems :
              LET r == parse_command_line(MAX_NUM_PROGRAMS, argv, nomem)
              IN IF r.err # NoErr
                 THEN /\ Die(r.err)
                      /\ programs' = r.progs
                      /\ UNCHANGED <<i, num_programs>>
                 ELSE /\ num_programs' = r.count
                      /\ programs' = r.progs
                      /\ pc' = IF 1 < r.count THEN "pipes" ELSE "fork"
                      /\ i' = IF 1 < r.count THEN 1 ELSE 0
                      /\ UNCHANGED <<fds, log, exitCode>>
    /\ UNCHANGED <<argv, startFds, pipes, child, overtook>>

Main == MainWith({-1})

MainOutOfMemory ==
    /\ Len(argv) > 1
    /\ MainWith(0..(Len(argv) - 1))
    /\ pc' = "died"
    /\ log'[Len(log')].name = "Pointer is NULL."

\* The two assignments with PIPEFD_READ and PIPEFD_WRITE exchanged.
AssignPipeSwapped(progs, j, fd) ==
    [progs EXCEPT ![j - 1].fd_out = fd[PIPEFD_READ], ![j].fd_in = fd[PIPEFD_WRITE]]

\* The two assignments of prepare_pipes after pipe(fd) in iteration j.
AssignPipe(progs, j, fd) ==
    [progs EXCEPT ![j - 1].fd_out = fd[PIPEFD_WRITE], ![j].fd_in = fd[PIPEFD_READ]]

\* prepare_pipes going on to the next pipe when pipe() has failed.
PreparePipeWithUnchecked(ok) ==
    /\ pc = "pipes"
    /\ i < num_programs
    /\ LET s == SysPipe(fds, i - 1)
       IN /\ fds' = IF ok THEN s.t ELSE fds
          /\ pipes' = IF ok THEN Push(pipes, i - 1, 0) ELSE pipes
          /\ programs' = IF ok THEN AssignPipe(programs, i, s.fd) ELSE programs
          /\ IF i + 1 < num_programs
             THEN i' = i + 1 /\ pc' = "pipes"
             ELSE i' = 0 /\ pc' = "fork"
          /\ UNCHANGED <<log, exitCode>>
    /\ UNCHANGED <<argv, startFds, num_programs, child, overtook>>

\* One iteration of the loop of prepare_pipes; pipe() fails when ~ok.
PreparePipeWith(ok) ==
    /\ pc = "pipes"
    /\ i < num_programs
    /\ IF ~ok
       THEN /\ Die("pipe() failed.")
            /\ UNCHANGED <<i, programs, pipes>>
       ELSE LET s == SysPipe(fds, i - 1)
          IN /\ fds' = s.t
             /\ pipes' = Push(pipes, i - 1, 0)
             /\ programs' = AssignPipe(programs, i, s.fd)
             /\ IF i + 1 < num_programs
                THEN i' = i + 1 /\ pc' = "pipes"
                ELSE i' = 0 /\ pc' = "fork"
             /\ UNCHANGED <<log, exitCode>>
    /\ UNCHANGED <<argv, startFds, num_programs, child, overtook>>

PreparePipe == PreparePipeWith(TRUE)

PipeFails == PreparePipeWith(FALSE)

\* The state of child cur right after fork(): a copy of the parent's memory
\* and descriptor table.  (execvp and exit discard the copy of the memory;
\* cmd keeps the name of the command.)
Forked(progs, cur, t) ==
    [phase |-> "forked", programs |-> progs, cmd |-> progs[cur].argv[1],
     fds |-> t, budget |-> 0, eof |-> FALSE, code |-> -1, sig |-> 0,
     status |-> -1, err |-> NoErr]

\* main's "Starting program" line and start_program up to fork(), which
\* fails when ~ok.
ForkWith(ok) ==
    /\ pc = "fork"
    /\ i < num_programs
    /\ IF ~ok
       THEN /\ DieAfter(Append(log, Line("Starting", i, programs[i].argv[1], 0)),
                        "fork() failed.")
            /\ UNCHANGED child
       ELSE /\ child' = Push(child, i, Forked(programs, i, fds))
            /\ log' = Append(log, Line("Starting", i, programs[i].argv[1], 0))
            /\ pc' = "parent"
            /\ UNCHANGED <<fds, exitCode>>
    /\ UNCHANGED <<argv, startFds, i, num_programs, programs, pipes, overtook>>

Fork == ForkWith(TRUE)

ForkFails == ForkWith(FALSE)

\* ParentBranch forgetting to close one of the two descriptors.
ParentBranchKeeps(progs, cur, t, pid, keep) ==
    LET fd == IF keep = "in" THEN progs[cur].fd_out ELSE progs[cur].fd_in
        c  == IF fd >= 0 THEN SysClose(t, fd) ELSE [rv |-> 0, t |-> t]
    IN [err |-> NoErr, t |-> c.t,
        prog |-> [progs[cur] EXCEPT !.pid = pid, !.fd_in = -1, !.fd_out = -1]]

ParentBranchKeepsIn(progs, num, cur, t, pid, bad) ==
    ParentBranchKeeps(progs, cur, t, pid, "in")

ParentBranchKeepsOut(progs, num, cur, t, pid, bad) ==
    ParentBranchKeeps(progs, cur, t, pid, "out")

\* The parent branch of start_program for programs[cur] in table t.  bad
\* names the close() that fails in the kernel ("in", "out" or "none").
\* The result is [err, t, prog].
ParentBranch(progs, num, cur, t, pid, bad) ==
    LET c1 == IF cur > 0 /\ progs[cur].fd_in >= 0
              THEN SysClose(t, progs[cur].fd_in) ELSE [rv |-> 0, t |-> t]
        r1 == IF bad = "in" /\ cur > 0 /\ progs[cur].fd_in >= 0 THEN -1 ELSE c1.rv
        c2 == IF cur # num - 1 /\ progs[cur].fd_out >= 0
              THEN SysClose(c1.t, progs[cur].fd_out) ELSE [rv |-> 0, t |-> c1.t]
        r2 == IF bad = "out" /\ cur # num - 1 /\ progs[cur].fd_out >= 0 THEN -1 ELSE c2.rv
    IN IF check_return_value(r1, "close()") # NoErr
       THEN [err |-> "close()", t |-> c1.t, prog |-> [progs[cur] EXCEPT !.pid = pid]]
       ELSE IF check_return_value(r2, "close()") # NoErr
       THEN [err |-> "close()", t |-> c2.t, prog |-> [progs[cur] EXCEPT !.pid = pid]]
       ELSE [err |-> NoErr, t |-> c2.t,
             prog |-> [progs[cur] EXCEPT !.pid = pid, !.fd_in = -1, !.fd_out = -1]]

\* start_program after fork() in the parent, and the loop step of main; the
\* kernel fails one of the close() calls named in bads.
ParentReleaseWith(bads) ==
    /\ pc = "parent"
    /\ \E bad \in bads :
         LET r == ParentBranch(programs, num_programs, i, fds, FIRST_PID + i, bad)
         IN /\ programs' = [programs EXCEPT ![i] = r.prog]
            /\ IF r.err # NoErr
               THEN Die(r.err) /\ UNCHANGED i
               ELSE /\ fds' = r.t
                    /\ IF i + 1 < num_programs
                       THEN i' = i + 1 /\ pc' = "fork"
                       ELSE i' = 0 /\ pc' = "wait"
                    /\ UNCHANGED <<log, exitCode>>
    /\ UNCHANGED <<argv, startFds, num_programs, pipes, child, overtook>>

ParentRelease == ParentReleaseWith({"none"})

CloseFails == ParentReleaseWith({"in", "out"}) /\ pc' = "died"

\* wait_on_program returning the wait status itself.
wait_on_program_raw(prog, zombie, fails, status) ==
    IF prog.pid < 0 THEN [blocked |-> FALSE, rv |-> -1, reaped |-> FALSE]
    ELSE IF fails THEN [blocked |-> FALSE, rv |-> -1, reaped |-> FALSE]
    ELSE IF ~zombie THEN [blocked |-> TRUE, rv |-> -1, reaped |-> FALSE]
    ELSE [blocked |-> FALSE, rv |-> status, reaped |-> TRUE]

\* wait_on_program(prog): blocks in waitpid() until the child is a zombie.
\* zombie says whether it is; fails says that waitpid() returns an error
\* instead; status is the child's wait status.  The result is [rv, reaped],
\* or blocked.
wait_on_program(prog, zombie, fails, status) ==
    IF prog.pid < 0 THEN [blocked |-> FALSE, rv |-> -1, reaped |-> FALSE]
    ELSE IF fails THEN [blocked |-> FALSE, rv |-> -1, reaped |-> FALSE]
    ELSE IF ~zombie THEN [blocked |-> TRUE, rv |-> -1, reaped |-> FALSE]
    ELSE [blocked |-> FALSE, rv |-> WEXITSTATUS(status), reaped |-> TRUE]

\* The wait loop printing nothing for a stage whose wait failed.
WaitWithSilentFailure(fails) ==
    /\ pc = "wait"
    /\ i < num_programs
    /\ LET r == wait_on_program(programs[i], child[i].phase = "zombie", fails,
                                child[i].status)
       IN /\ ~r.blocked
          /\ child' = IF r.reaped THEN [child EXCEPT ![i].phase = "reaped"] ELSE child
          /\ log' = IF r.rv < 0 THEN log
                    ELSE Append(log, Line("exited", i, programs[i].argv[1], r.rv))
    /\ i' = i + 1
    /\ UNCHANGED <<argv, startFds, pc, num_programs, programs, fds, pipes,
                   exitCode, overtook>>

\* The wait loop giving up, through die(), at the first stage whose wait
\* failed.
WaitWithAbort(fails) ==
    /\ pc = "wait"
    /\ i < num_programs
    /\ LET r == wait_on_program(programs[i], child[i].phase = "zombie", fails,
                                child[i].status)
       IN /\ ~r.blocked
          /\ child' = IF r.reaped THEN [child EXCEPT ![i].phase = "reaped"] ELSE child
          /\ IF r.rv < 0
             THEN /\ DieAfter(Append(log, Line("Waiting", i, programs[i].argv[1], 0)),
                              "waitpid() failed.")
                  /\ UNCHANGED i
             ELSE /\ log' = log \o << Line("Waiting", i, programs[i].argv[1], 0),
                                      Line("exited", i, programs[i].argv[1], r.rv) >>
                  /\ i' = i + 1
                  /\ UNCHANGED <<pc, fds, exitCode>>
    /\ UNCHANGED <<argv, startFds, num_programs, programs, pipes, overtook>>

\* The wait loop going through the stages from the last to the first.
WaitWithReversed(fails) ==
    /\ pc = "wait"
    /\ i < num_programs
    /\ LET k == num_programs - 1 - i
           r == wait_on_program(programs[k], child[k].phase = "zombie", fails,
                                child[k].status)
       IN /\ ~r.blocked
          /\ child' = IF r.reaped THEN [child EXCEPT ![k].phase = "reaped"] ELSE child
          /\ log' = log \o << Line("Waiting", k, programs[k].argv[1], 0),
                              Line("exited", k, programs[k].argv[1], r.rv) >>
    /\ i' = i + 1
    /\ UNCHANGED <<argv, startFds, pc, num_programs, programs, fds, pipes,
                   exitCode, overtook>>

\* One iteration of main's wait loop; waitpid() returns an error when fails.
WaitWith(fails) ==
    /\ pc = "wait"
    /\ i < num_programs
    /\   LET r == wait_on_program(programs[i], child[i].phase = "zombie", fails,
                                  child[i].status)
         IN /\ ~r.blocked
            /\ child' = IF r.reaped THEN [child EXCEPT ![i].phase = "reaped"] ELSE child
            /\ log' = log \o << Line("Waiting", i, programs[i].argv[1], 0),
                                Line("exited", i, programs[i].argv[1], r.rv) >>
    /\ i' = i + 1
    /\ UNCHANGED <<argv, startFds, pc, num_programs, programs, fds, pipes,
                   exitCode, overtook>>

WaitOnProgram == WaitWith(FALSE)

WaitFails == WaitWith(TRUE)

\* free_programs
free_programs(progs, num) ==
    [k \in DOMAIN progs |-> IF k < num THEN [progs[k] EXCEPT !.argv = <<>>] ELSE progs[k]]

\* main returning the exit value of the last stage, as a shell does.
MainReturnsLastStatus ==
    /\ pc = "wait"
    /\ i = num_programs
    /\ programs' = free_programs(programs, num_programs)
    /\ log' = Append(log, Line("good", -1, "Parent: Everything is good.", 0))
    /\ pc' = "done"
    /\ exitCode' = child[num_programs - 1].status \div 256
    /\ fds' = NoFds
    /\ UNCHANGED <<argv, startFds, i, num_programs, pipes, child, overtook>>

\* The end of main: free_programs, the final message, return 0.
MainReturn ==
    /\ pc = "wait"
    /\ i = num_programs
    /\ programs' = free_programs(programs, num_programs)
    /\ log' = Append(log, Line("good", -1, "Parent: Everything is good.", 0))
    /\ pc' = "done"
    /\ exitCode' = 0
    /\ fds' = NoFds
    /\ UNCHANGED <<argv, startFds, i, num_programs, pipes, child, overtook>>

\* The two dup2 calls, each followed by close() of the descriptor that was
\* duplicated.
ChildRedirectClosing(progs, num, cur, t) ==
    LET d1 == IF cur > 0 THEN SysDup2(t, progs[cur].fd_in, FD_STDIN)
              ELSE [rv |-> 0, t |-> t]
        e1 == IF cur > 0 /\ d1.rv >= 0 THEN SysClose(d1.t, progs[cur].fd_in).t ELSE d1.t
        d2 == IF cur # num - 1 THEN SysDup2(e1, progs[cur].fd_out, FD_STDOUT)
              ELSE [rv |-> 0, t |-> e1]
        e2 == IF cur # num - 1 /\ d2.rv >= 0 THEN SysClose(d2.t, progs[cur].fd_out).t ELSE d2.t
    IN IF check_return_value(d1.rv, "dup2()") # NoErr
       THEN [err |-> "dup2()", t |-> d1.t]
       ELSE [err |-> check_return_value(d2.rv, "dup2()"), t |-> e2]

\* ------------------------------------------------------------------------
\* The children
\* ------------------------------------------------------------------------
\* The two dup2 calls of the child branch: [err, t].
ChildRedirect(progs, num, cur, t) ==
    LET d1 == IF cur > 0 THEN SysDup2(t, progs[cur].fd_in, FD_STDIN)
              ELSE [rv |-> 0, t |-> t]
        d2 == IF cur # num - 1 THEN SysDup2(d1.t, progs[cur].fd_out, FD_STDOUT)
              ELSE [rv |-> 0, t |-> d1.t]
    IN IF check_return_value(d1.rv, "dup2()") # NoErr
       THEN [err |-> "dup2()", t |-> d1.t]
       ELSE [err |-> check_return_value(d2.rv, "dup2()"), t |-> d2.t]

\* The close loop closing the descriptors of programs[j] only.
ChildCloseLoopOwnOnly(progs, num, j, t) ==
    IF ~(j < num) THEN [err |-> NoErr, t |-> t]
    ELSE LET c1 == IF progs[j].fd_in >= 0 THEN SysClose(t, progs[j].fd_in)
                   ELSE [rv |-> 0, t |-> t]
             c2 == IF progs[j].fd_out >= 0 THEN SysClose(c1.t, progs[j].fd_out)
                   ELSE [rv |-> 0, t |-> c1.t]
         IN IF check_return_value(c1.rv, "close()") # NoErr
            THEN [err |-> "close()", t |-> c1.t]
            ELSE [err |-> check_return_value(c2.rv, "close()"), t |-> c2.t]

\* The loop that closes the pipe descriptors of programs[j..num-1]: [err, t].
RECURSIVE ChildCloseLoop(_, _, _, _)
ChildCloseLoop(progs, num, j, t) ==
    IF ~(j < num) THEN [err |-> NoErr, t |-> t]
    ELSE LET c1 == IF progs[j].fd_in >= 0 THEN SysClose(t, progs[j].fd_in)
                   ELSE [rv |-> 0, t |-> t]
             c2 == IF progs[j].fd_out >= 0 THEN SysClose(c1.t, progs[j].fd_out)
                   ELSE [rv |-> 0, t |-> c1.t]
         IN IF check_return_value(c1.rv, "close()") # NoErr
            THEN [err |-> "close()", t |-> c1.t]
            ELSE IF check_return_value(c2.rv, "close()") # NoErr
            THEN [err |-> "close()", t |-> c2.t]
            ELSE \* the next iteration, on the table as it is now
                 CHOOSE r \in {ChildCloseLoop(progs, num, j + 1, t2) : t2 \in {c2.t}} : TRUE

\* The child branch returning from a failed execvp as if the program had
\* run.
ChildBranchIgnoresExec(progs, num, cur, t) ==
    LET r == ChildRedirect(progs, num, cur, t)
        c == ChildCloseLoop(progs, num, cur, r.t)
    IN IF r.err # NoErr THEN r ELSE c

\* The child branch without the loop that closes the pipe descriptors.
ChildBranchKeepsPipes(progs, num, cur, t) ==
    LET r == ChildRedirect(progs, num, cur, t)
    IN IF r.err # NoErr THEN r
       ELSE IF ExecFails(progs[cur].argv[1]) THEN [err |-> "execvp() failed.", t |-> r.t]
       ELSE r

\* The child branch of start_program up to and including execvp: [err, t],
\* err being the message of the die() that ended the child, NoErr when the
\* new program image runs.
ChildBranch(progs, num, cur, t) ==
    LET r == ChildRedirect(progs, num, cur, t)
        c == ChildCloseLoop(progs, num, cur, r.t)
    IN IF r.err # NoErr THEN r
       ELSE IF c.err # NoErr THEN c
       ELSE IF ExecFails(progs[cur].argv[1]) THEN [err |-> "execvp() failed.", t |-> c.t]
       ELSE c

\* The command of stage k.
Cmd(k) == child[k].cmd

\* The child c terminates, by exit(code) when sig = 0 and by signal sig
\* otherwise: its descriptors are closed and its wait status is set.  msg
\* is the message of die(), if it was die() that called exit.
Terminated(c, code, sig, msg) ==
    [c EXCEPT !.phase = "zombie", !.programs = NoPrograms, !.fds = NoFds,
              !.code = IF sig = 0 THEN code ELSE -1, !.sig = sig,
              !.status = IF sig = 0 THEN StatusExited(code) ELSE StatusSignaled(sig),
              !.err = msg]

Overtakes(k) == \E j \in DOMAIN child : j < k /\ Alive(j)

\* The child branch without die() after execvp: when execvp fails the child
\* returns from start_program into main, whose rest it runs to the end on
\* its own, printing the final message on the stderr it shares with the
\* parent and returning 0.
ChildSetupFallsThrough(k) ==
    /\ k \in DOMAIN child
    /\ child[k].phase = "forked"
    /\ \E r \in {ChildBranch(child[k].programs, num_programs, k, child[k].fds)} :
          IF r.err = "execvp() failed."
          THEN /\ child' = [child EXCEPT ![k] = Terminated(@, 0, 0, NoErr)]
               /\ log' = Append(log, Line("good", -1, "Parent: Everything is good.", 0))
               /\ overtook' = (overtook \/ Overtakes(k))
          ELSE IF r.err # NoErr
          THEN /\ child' = [child EXCEPT
                              ![k] = Terminated(@, EXIT_FAILURE, 0, r.err)]
               /\ overtook' = (overtook \/ Overtakes(k))
               /\ UNCHANGED log
          ELSE /\ \E b \in StartBudgets(Cmd(k)) :
                    child' = [child EXCEPT ![k].phase = "running", ![k].fds = r.t,
                                           ![k].programs = NoPrograms,
                                           ![k].budget = b]
               /\ UNCHANGED <<overtook, log>>
    /\ UNCHANGED <<argv, startFds, pc, i, num_programs, programs, fds, pipes,
                   exitCode>>

\* The child of stage k runs from fork() to execvp().
ChildSetup(k) ==
    /\ k \in DOMAIN child
    /\ child[k].phase = "forked"
    /\ \E r \in {ChildBranch(child[k].programs, num_programs, k, child[k].fds)} :
          IF r.err # NoErr
          THEN /\ child' = [child EXCEPT
                              ![k] = Terminated(@, EXIT_FAILURE, 0, r.err)]
               /\ overtook' = (overtook \/ Overtakes(k))
          ELSE /\ \E b \in StartBudgets(Cmd(k)) :
                    child' = [child EXCEPT ![k].phase = "running", ![k].fds = r.t,
                                           ![k].programs = NoPrograms,
                                           ![k].budget = b]
               /\ UNCHANGED overtook
    /\ UNCHANGED <<argv, startFds, pc, i, num_programs, programs, fds, pipes,
                   log, exitCode>>

\* Stage k writes one item to its standard output.
StageWrite(k) ==
    /\ k \in DOMAIN child
    /\ child[k].phase = "running"
    /\ child[k].budget > 0
    /\ LET t    == child[k].fds
           open == FD_STDOUT \in DOMAIN t
           obj  == IF open THEN t[FD_STDOUT] ELSE Tty(-1)
       IN IF open /\ obj.kind = "pipe" /\ obj.end = "w"
          THEN IF ~EndOpen(obj.idx, "r")
               THEN \* no reader: SIGPIPE
                    /\ child' = [child EXCEPT
                                   ![k] = Terminated(@, 0, SIGPIPE, NoErr)]
                    /\ overtook' = (overtook \/ Overtakes(k))
                    /\ UNCHANGED pipes
               ELSE \* room in the buffer, or block
                    /\ pipes[obj.idx] < PipeCap
                    /\ pipes' = [pipes EXCEPT ![obj.idx] = @ + 1]
                    /\ child' = [child EXCEPT ![k].budget = @ - 1]
                    /\ UNCHANGED overtook
          ELSE \* the terminal takes the item; EBADF otherwise
               /\ child' = [child EXCEPT ![k].budget = @ - 1]
               /\ UNCHANGED <<pipes, overtook>>
    /\ UNCHANGED <<argv, startFds, pc, i, num_programs, programs, fds, log, exitCode>>

\* Stage k, a command that reads, reads one item from its standard input.
StageRead(k) ==
    /\ k \in DOMAIN child
    /\ child[k].phase = "running"
    /\ Reads(Cmd(k))
    /\ ~child[k].eof
    /\ child[k].budget = 0
    /\ LET t    == child[k].fds
           open == FD_STDIN \in DOMAIN t
           obj  == IF open THEN t[FD_STDIN] ELSE Tty(-1)
       IN IF open /\ obj.kind = "pipe" /\ obj.end = "r"
          THEN IF pipes[obj.idx] > 0
               THEN /\ pipes' = [pipes EXCEPT ![obj.idx] = @ - 1]
                    /\ child' = [child EXCEPT ![k].budget = 1]
               ELSE \* empty: end of file once no write end is open, else block
                    /\ ~EndOpen(obj.idx, "w")
                    /\ child' = [child EXCEPT ![k].eof = TRUE]
                    /\ UNCHANGED pipes
          ELSE \* the terminal is at end of file; EBADF otherwise
               /\ child' = [child EXCEPT ![k].eof = TRUE]
               /\ UNCHANGED pipes
    /\ UNCHANGED <<argv, startFds, pc, i, num_programs, programs, fds, log,
                   exitCode, overtook>>

\* Stage k ends by itself: exit(code), or abort().
StageExit(k) ==
    /\ k \in DOMAIN child
    /\ child[k].phase = "running"
    /\ child[k].budget = 0
    /\ Reads(Cmd(k)) => child[k].eof
    /\ \E code \in ExitCodes(Cmd(k)) :
         child' = [child EXCEPT
                     ![k] = Terminated(@, code, IF Aborts(Cmd(k)) THEN SIGABRT ELSE 0,
                                       NoErr)]
    /\ overtook' = (overtook \/ Overtakes(k))
    /\ UNCHANGED <<argv, startFds, pc, i, num_programs, programs, fds, pipes,
                   log, exitCode>>

\* ------------------------------------------------------------------------
\* Specifications
\* ------------------------------------------------------------------------
Stages == 0..(MAX_NUM_PROGRAMS - 1)

Setup == \E k \in Stages : ChildSetup(k)
Write == \E k \in Stages : StageWrite(k)
Read == \E k \in Stages : StageRead(k)
Exit == \E k \in Stages : StageExit(k)

\* The steps of the parent and of the children when no system call fails.
Run ==
    \/ Main \/ PreparePipe \/ Fork \/ ParentRelease \/ WaitOnProgram \/ MainReturn
    \/ Setup \/ Write \/ Read \/ Exit

\* The steps in which malloc, pipe, fork, close or waitpid fails.
Fault == MainOutOfMemory \/ PipeFails \/ ForkFails \/ CloseFails \/ WaitFails

Next == Run \/ Fault

Spec == Init /\ [][Next]_vars

\* The stages a list of at most MaxTokens tokens can have.
ShortStages == 0..((MaxTokens + 1) \div 2 - 1)

\* Every process that can take a step eventually takes one.
Fairness ==
    /\ WF_vars(Main \/ PreparePipe \/ Fork \/ ParentRelease \/ WaitOnProgram \/ MainReturn)
    /\ \A k \in ShortStages :
         WF_vars(ChildSetup(k) \/ StageWrite(k) \/ StageRead(k) \/ StageExit(k))

\* Pipelines of up to three generating and copying commands, no system
\* call failing, under fair scheduling.
LiveInit ==
    InitWith({ t \in ShortLists : \A x \in 1..Len(t) : (t[x] = Delim) <=> (x % 2 = 0) },
             StartTables)

LiveSpec == LiveInit /\ [][Run]_vars /\ Fairness

\* All short token lists and the chains around the limit of
\* MAX_NUM_PROGRAMS programs, no system call failing.
MaxInit ==
    InitWith(ListsUpTo({Delim, "nosuch", "-x"}, MaxTokens) \cup LongLists
                \cup {<<"gen", Delim, "cat">>},
             StartTables)

MaxSpec == MaxInit /\ [][Run]_vars

\* ------------------------------------------------------------------------
\* Properties
\* ------------------------------------------------------------------------
\* The pipe descriptors of table t.
PipeFds(t) == {fd \in DOMAIN t : t[fd].kind = "pipe"}

\* The "Program ... exited with ..." lines printed so far.
IsReport(l) == l.msg = "exited"
Reports == SelectSeq(log, IsReport)

\* C1: once start_program has returned in the parent for every stage (the
\* parent is in its wait loop), the parent holds no pipe descriptor: its
\* descriptor table is the one it was started with.
C1_ParentHoldsNoPipeEnd ==
    pc = "wait" => /\ PipeFds(fds) = {}
                   /\ fds = startFds

\* A pipeline of MAX_NUM_PROGRAMS stages, all launched, whose nine pipes
\* were created.
C1_Witness ==
    /\ pc = "wait"
    /\ num_programs = MAX_NUM_PROGRAMS
    /\ DOMAIN pipes = 0..(MAX_NUM_PROGRAMS - 2)
    /\ DOMAIN child = 0..(MAX_NUM_PROGRAMS - 1)

\* C2: under fair scheduling, a 3-stage pipeline whose stages 1 and 2 read
\* their standard input until end of file terminates: all three stages end
\* and are reaped, and the parent leaves its wait loop.
ThreeStagesReadingToEof ==
    /\ pc = "fork" /\ i = 0
    /\ num_programs = 3
    /\ Reads(programs[1].argv[1]) /\ Reads(programs[2].argv[1])

AllReapedAndDone ==
    /\ pc = "done"
    /\ \A k \in 0..(num_programs - 1) : k \in DOMAIN child /\ child[k].phase = "reaped"

C2_PipelineTerminates == ThreeStagesReadingToEof ~> AllReapedAndDone

\* gen | cat | cat has terminated, each copying stage having read up to the
\* end of file of its pipe.
C2_Witness ==
    /\ AllReapedAndDone
    /\ num_programs = 3
    /\ argv = <<ProgName, "gen", Delim, "cat", Delim, "cat">>
    /\ child[1].eof /\ child[2].eof
    /\ child[2].code = 0

\* C3: the reports are printed for stages 0, 1, 2, ... in this order, never
\* more than num_programs of them, and exactly num_programs once main has
\* returned.
C3_ReportsInLaunchOrder ==
    /\ \A j \in 1..Len(Reports) : Reports[j].idx = j - 1
    /\ Len(Reports) > 0 => Len(Reports) <= num_programs
    /\ pc = "done" => Len(Reports) = num_programs

\* A pipeline of several stages has been reported although a later stage
\* terminated before an earlier one.
C3_Witness ==
    /\ pc = "done"
    /\ num_programs >= 2
    /\ overtook
    /\ Len(Reports) = num_programs

\* C4: a stage killed by a signal is reported by a value that no normal
\* exit can be reported by, that is, by none of 0..255.
C4_SignalDistinguishable ==
    \A j \in 1..Len(Reports) :
       LET k == Reports[j].idx
       IN (child[k].phase = "reaped" /\ child[k].sig # 0)
             => Reports[j].status \notin 0..255

\* C5: a stage that was waited for and had ended by exit(K) is reported
\* with the value K.
C5_ExitCodeReported ==
    \A j \in 1..Len(Reports) :
       LET k == Reports[j].idx
       IN (child[k].phase = "reaped" /\ child[k].sig = 0)
             => Reports[j].status = child[k].code

\* A stage that ended by exit(255) has been reported.
C5_Witness ==
    \E j \in 1..Len(Reports) :
       /\ child[Reports[j].idx].phase = "reaped"
       /\ child[Reports[j].idx].sig = 0
       /\ child[Reports[j].idx].code = 255
       /\ Reports[j].status = 255

\* The messages of the die() calls of the parent: usage and configuration
\* errors, and the failures of malloc, pipe, fork and close.
StructuralErrors ==
    { "Specify at least one program to run. Multiple programs are separated by --",
      "Too many programs.", "Empty program.", "Last program is empty.",
      "Pointer is NULL.", "pipe() failed.", "fork() failed.", "close()" }

\* C6: the parent exits with 0 when it has completed its wait loop,
\* whatever was reported for the stages; it exits with another code only
\* through die() with the message of a structural error.
C6_ParentExitCode ==
    /\ pc = "done" => exitCode = 0
    /\ exitCode \notin {-1, 0} =>
          /\ pc = "died"
          /\ log[Len(log)].msg = "Error"
          /\ log[Len(log)].name \in StructuralErrors
    /\ exitCode = -1 <=> pc \notin {"done", "died"}

\* The parent has returned 0 after reporting a stage that exited with a
\* code other than 0 and a stage killed by a signal.
C6_Witness ==
    /\ pc = "done" /\ exitCode = 0
    /\ \E j \in 1..Len(Reports) : Reports[j].status > 0
    /\ \E k \in DOMAIN child : child[k].sig # 0

\* The token list and its delimiter-separated groups, numbered from 0.
Tokens == Tail(argv)
DelimAt == {x \in 1..Len(Tokens) : Tokens[x] = Delim}
NumGroups == Cardinality(DelimAt) + 1
NthDelim(n) == CHOOSE d \in DelimAt : Cardinality({e \in DelimAt : e <= d}) = n
GroupStart(k) == IF k = 0 THEN 1 ELSE NthDelim(k) + 1
GroupEnd(k) == IF k = NumGroups - 1 THEN Len(Tokens) ELSE NthDelim(k + 1) - 1
Group(k) == SubSeq(Tokens, GroupStart(k), GroupEnd(k))

NoTokens == Tokens = <<>>
TrailingDelimiter == Tokens # <<>> /\ Tokens[Len(Tokens)] = Delim
LeadingDelimiter == Tokens # <<>> /\ Tokens[1] = Delim
AdjacentDelimiters == \E x \in 1..(Len(Tokens) - 1) : Tokens[x] = Delim /\ Tokens[x + 1] = Delim
EmptyGroup == NoTokens \/ LeadingDelimiter \/ AdjacentDelimiters \/ TrailingDelimiter
TooManyGroups == NumGroups > MAX_NUM_PROGRAMS
ConfigurationError == EmptyGroup \/ TooManyGroups

\* The message the parent died with.
DiedWith == log[Len(log)].name

\* The descriptors of table t that refer to end e of pipe p.
FdsOf(t, p, e) == {fd \in DOMAIN t : t[fd] = PipeEnd(p, e)}

PipesPrepared == pc = "fork" /\ i = 0 /\ child = NoChildren

\* C7: when prepare_pipes has returned, num_programs - 1 pipes exist, each
\* end of each is open under one descriptor of the parent; the write end of
\* pipe p is programs[p].fd_out and its read end programs[p+1].fd_in;
\* programs[0].fd_in and programs[num_programs-1].fd_out are -1; the parent
\* has no other new descriptor (none at all for one program).
C7_PipeWiring ==
    PipesPrepared =>
      /\ DOMAIN pipes = 0..(num_programs - 2)
      /\ \A p \in DOMAIN pipes :
            /\ FdsOf(fds, p, "w") = {programs[p].fd_out}
            /\ FdsOf(fds, p, "r") = {programs[p + 1].fd_in}
      /\ programs[0].fd_in = -1
      /\ programs[num_programs - 1].fd_out = -1
      /\ \A k \in 1..(num_programs - 2) :
            programs[k].fd_in >= 0 /\ programs[k].fd_out >= 0
      /\ Cardinality(PipeFds(fds)) = 2 * (num_programs - 1)
      /\ DOMAIN fds \ PipeFds(fds) = DOMAIN startFds
      /\ num_programs = 1 => pipes = NoPipes /\ fds = startFds

\* prepare_pipes has returned for MAX_NUM_PROGRAMS programs.
C7_Witness ==
    /\ PipesPrepared
    /\ num_programs = MAX_NUM_PROGRAMS
    /\ programs[1].fd_in >= 0 /\ programs[1].fd_out >= 0

\* C8: with a configuration error in the token list the parent goes from
\* main straight to die(): it exits with EXIT_FAILURE, and no pipe was
\* created and no child forked.
C8_ConfigErrorBeforeLaunch ==
    ConfigurationError =>
      /\ pc \in {"main", "died"}
      /\ pc = "died" => exitCode = EXIT_FAILURE
      /\ pipes = NoPipes
      /\ child = NoChildren
      /\ PipeFds(fds) = {}

\* The parent has died of a list that ends with a delimiter.
C8_Witness ==
    /\ pc = "died"
    /\ TrailingDelimiter
    /\ ~TooManyGroups
    /\ Group(0) # <<>>

\* parse_command_line has just returned or died.
ParseEnded == pc \in {"pipes", "fork", "died"} /\ pipes = NoPipes /\ child = NoChildren

\* C9: for a token list without configuration error, parse_command_line
\* returns the number of groups, and programs[k].argv is the k-th group, in
\* order, followed by NULL, argc being its length.
C9_ParseSplitsGroups ==
    (ParseEnded /\ ~ConfigurationError) =>
      /\ pc # "died"
      /\ num_programs = NumGroups
      /\ DOMAIN programs = 0..(NumGroups - 1)
      /\ \A k \in 0..(NumGroups - 1) :
            /\ programs[k].argv = Append(Group(k), NULL)
            /\ programs[k].argc = Len(Group(k))
            /\ \A x \in 1..Len(programs[k].argv) : programs[k].argv[x] # Delim

\* Two programs were parsed, the first with two different tokens.
C9_Witness ==
    /\ ParseEnded
    /\ num_programs = 2
    /\ programs[0].argc = 2
    /\ programs[0].argv[1] # programs[0].argv[2]

\* A list of exactly MAX_NUM_PROGRAMS non-empty groups is accepted and, once
\* the parent waits, MAX_NUM_PROGRAMS children were forked.
AcceptsMaximum ==
    (NumGroups = MAX_NUM_PROGRAMS /\ ~ConfigurationError) =>
      /\ pc # "died"
      /\ pc \in {"wait", "done"} => DOMAIN child = 0..(MAX_NUM_PROGRAMS - 1)

\* A list of more groups dies in the parse, no child forked.
RejectsMore ==
    TooManyGroups => pc \in {"main", "died"} /\ child = NoChildren

\* C10 as stated: ... and every list of more than MAX_NUM_PROGRAMS groups
\* dies with the too-many-programs error.
C10_TooManyAlwaysReported ==
    /\ AcceptsMaximum
    /\ RejectsMore
    /\ (TooManyGroups /\ pc = "died") => DiedWith = "Too many programs."

\* C10, amended: the bound is exact (MAX_NUM_PROGRAMS groups are accepted
\* and launched, more are rejected in the parse with no child forked); the
\* error is the too-many-programs error when the first MAX_NUM_PROGRAMS
\* groups are non-empty and a token follows them, and the empty-program or
\* last-program error otherwise.
C10_BoundExact ==
    /\ AcceptsMaximum
    /\ RejectsMore
    /\ (TooManyGroups /\ pc = "died") =>
          IF /\ \A k \in 0..(MAX_NUM_PROGRAMS - 1) : Group(k) # <<>>
             /\ NthDelim(MAX_NUM_PROGRAMS) < Len(Tokens)
          THEN DiedWith = "Too many programs."
          ELSE DiedWith \in {"Empty program.", "Last program is empty."}

\* MAX_NUM_PROGRAMS stages were launched, waited for and reported.
C10_Witness ==
    /\ pc = "done"
    /\ NumGroups = MAX_NUM_PROGRAMS
    /\ DOMAIN child = 0..(MAX_NUM_PROGRAMS - 1)
    /\ Len(Reports) = MAX_NUM_PROGRAMS

\* C11: a stage whose execvp fails ends by exit(EXIT_FAILURE) through
\* die("execvp() failed."), and this value, which is not 0, is what is
\* reported for it once it is waited for.  The step in which it ends changes
\* nothing in the parent and in the other children.  The parent that has
\* returned has launched and reported all num_programs stages and exits
\* with 0; it is never blocked waiting for such a stage.
ExecFailed(c) == ExecFails(c.cmd) /\ c.phase \in {"zombie", "reaped"}

C11_ExecFailureIsLocal ==
    [][ \A k \in DOMAIN child' :
          ExecFailed(child'[k]) =>
            /\ child'[k].err = "execvp() failed."
            /\ child'[k].sig = 0
            /\ child'[k].code = EXIT_FAILURE
            /\ EXIT_FAILURE # 0
            /\ (k \in DOMAIN child /\ child[k].phase = "forked") =>
                  /\ \A j \in DOMAIN child \ {k} : child'[j] = child[j]
                  /\ UNCHANGED <<pc, i, num_programs, programs, fds, pipes,
                                 log, exitCode>>
            /\ \A j \in 1..Len(log') :
                  (IsReport(log'[j]) /\ log'[j].idx = k /\ child'[k].phase = "reaped")
                     => log'[j].status = EXIT_FAILURE
            /\ (pc' = "wait" /\ i' = k) => child'[k].phase = "zombie"
            /\ pc' = "done" =>
                  /\ exitCode' = 0
                  /\ DOMAIN child' = 0..(num_programs' - 1)
                  /\ Len(SelectSeq(log', IsReport)) = num_programs'
      ]_vars

\* gen | nosuch | cat has run to the end: stage 1 failed in execvp and was
\* reported with EXIT_FAILURE, stages 0 and 2 ran and were reaped, and the
\* parent exited with 0.
C11_Witness ==
    /\ argv = <<ProgName, "gen", Delim, "nosuch", Delim, "cat">>
    /\ pc = "done" /\ exitCode = 0
    /\ child[1].err = "execvp() failed." /\ child[1].phase = "reaped"
    /\ Reports[2].idx = 1 /\ Reports[2].status = EXIT_FAILURE
    /\ child[0].phase = "reaped" /\ child[0].err = NoErr
    /\ child[2].phase = "reaped" /\ child[2].eof

\* C12: a step of the wait loop for stage i prints the report of stage i and
\* goes on to stage i + 1, whether the wait failed or not.  When it failed
\* the stage is not reaped and the value reported is -1, which is none of
\* 0..255; when it did not, the value is one of 0..255.  wait_on_program
\* answers -1 without calling waitpid (it neither blocks nor reaps) for a
\* program whose pid is negative, and -1 when waitpid fails.  The stages
\* that were reaped are reported with their own exit value, whatever
\* happened to the wait for the others.
WaitAnswersFailure(prog, fails) ==
    \A zombie \in BOOLEAN : \A code \in {0, 1, 255} :
       wait_on_program(prog, zombie, fails, StatusExited(code))
          = [blocked |-> FALSE, rv |-> -1, reaped |-> FALSE]

C12_WaitFailureIsLocal ==
    [][ /\ (pc = "wait" /\ i < num_programs /\ log' # log) =>
            LET rep == log'[Len(log')]
            IN /\ Len(log') = Len(log) + 2
               /\ rep.msg = "exited" /\ rep.idx = i
               /\ pc' = "wait" /\ i' = i + 1 /\ exitCode' = -1
               /\ \A k \in DOMAIN child \ {i} : child'[k] = child[k]
               /\ IF child'[i].phase = "reaped"
                  THEN rep.status \in 0..255
                  ELSE /\ rep.status = -1
                       /\ rep.status \notin 0..255
                       /\ child' = child
        /\ \A k \in DOMAIN programs' :
              /\ programs'[k].pid < 0 => WaitAnswersFailure(programs'[k], FALSE)
              /\ WaitAnswersFailure(programs'[k], TRUE)
        /\ \A j \in 1..Len(log') :
              LET k == log'[j].idx
              IN (IsReport(log'[j]) /\ child'[k].phase = "reaped" /\ child'[k].sig = 0)
                    => log'[j].status = child'[k].code
        /\ (pc' = "done" /\ \E j \in 1..Len(log') : IsReport(log'[j]) /\ log'[j].status = -1)
              => /\ Len(SelectSeq(log', IsReport)) = num_programs'
                 /\ exitCode' = 0
      ]_vars

\* gen | nosuch | cat has run to the end; the wait for stage 0 failed and
\* was reported as -1, stage 0 was left unreaped, and stages 1 and 2 were
\* then waited for and reported with their exit values 1 and 0.
C12_Witness ==
    /\ argv = <<ProgName, "gen", Delim, "nosuch", Delim, "cat">>
    /\ pc = "done"
    /\ Len(Reports) = 3
    /\ Reports[1].idx = 0 /\ Reports[1].status = -1 /\ child[0].phase = "zombie"
    /\ Reports[2].idx = 1 /\ Reports[2].status = 1 /\ child[1].phase = "reaped"
    /\ Reports[3].idx = 2 /\ Reports[3].status = 0 /\ child[2].phase = "reaped"

\* C13: when fork() has failed for stage i, the parent has ended with a
\* failure code, the children are those of stages 0..i-1, and each of them
\* has been waited for.
ForkFailed == pc = "died" /\ DiedWith = "fork() failed."

C13_ForkFailureReapsLaunched ==
    ForkFailed =>
       /\ exitCode = EXIT_FAILURE
       /\ DOMAIN child = 0..(i - 1)
       /\ \A k \in DOMAIN child : child[k].phase = "reaped"

\* C14: a step of prepare_pipes in which no pipe is created is a failure of
\* pipe(): it ends the parent with the exit code EXIT_FAILURE and the
\* message "pipe() failed.", no process has been forked, and once the parent
\* has ended no process holds an end of one of the pipes created before: no
\* descriptor of the parent is left open.  (The descriptors are closed by
\* exit(), called by die(); prepare_pipes itself calls no close().)
PipeFailed == pc = "died" /\ DiedWith = "pipe() failed."

C14_PipeFailureLeavesNothingOpen ==
    [][ /\ (pc = "pipes" /\ pipes' = pipes /\ <<pc, i>>' # <<pc, i>>) => PipeFailed'
        /\ PipeFailed' =>
              /\ pc = "pipes"
              /\ exitCode' = EXIT_FAILURE
              /\ child' = NoChildren
              /\ DOMAIN pipes' = 0..(i - 2)
              /\ fds' = NoFds
              /\ \A p \in DOMAIN pipes' : \A e \in {"r", "w"} :
                    /\ HoldsEnd(fds, p, e)
                    /\ ~EndOpen(p, e)'
              /\ \A l \in 1..Len(log') : log'[l].msg # "Starting"
      ]_vars

\* pipe() has failed for the second pipe of a three-stage pipeline, after
\* the first pipe was created.
C14_Witness ==
    /\ PipeFailed
    /\ num_programs = 3
    /\ DOMAIN pipes = {0}
    /\ i = 2
    /\ fds = NoFds /\ exitCode = EXIT_FAILURE

\* C15: the phases of main follow one another.  A step that forks forks
\* stage number (the number of children forked so far), with all
\* num_programs - 1 pipes created and no wait issued; no pipe is created
\* once a child exists.  A step that waits waits for stage number (the
\* number of waits issued so far), with all num_programs stages forked.  A
\* stage is reaped by the wait for it only, and once main has returned
\* every stage has been waited for exactly once.
IsWaiting(l) == l.msg = "Waiting"
Waits == SelectSeq(log, IsWaiting)

C15_PhasesInOrder ==
    [][ /\ DOMAIN child' # DOMAIN child =>
              /\ DOMAIN child' = DOMAIN child \cup {Cardinality(DOMAIN child)}
              /\ DOMAIN child = 0..(Cardinality(DOMAIN child) - 1)
              /\ DOMAIN pipes = 0..(num_programs - 2)
              /\ Waits = <<>>
              /\ pipes' = pipes
        /\ DOMAIN pipes' # DOMAIN pipes =>
              /\ child = NoChildren /\ child' = NoChildren
              /\ DOMAIN pipes' = DOMAIN pipes \cup {Cardinality(DOMAIN pipes)}
        /\ Waits' # Waits =>
              /\ Waits' = Append(Waits, Line("Waiting", Len(Waits), programs[Len(Waits)].argv[1], 0))
              /\ DOMAIN child = 0..(num_programs - 1)
              /\ child[Len(Waits)].phase # "reaped"
        /\ \A k \in DOMAIN child :
              (child[k].phase # "reaped" /\ child'[k].phase = "reaped")
                 => (Len(Waits) = k /\ Len(Waits') = k + 1)
        /\ pc' = "done" =>
              /\ Len(Waits') = num_programs'
              /\ \A k \in 0..(num_programs' - 1) : Waits'[k + 1].idx = k
      ]_vars

\* A three-stage pipeline has been forked, waited for and reaped, stage by
\* stage, a later stage having ended before an earlier one.
C15_Witness ==
    /\ pc = "done"
    /\ num_programs = 3
    /\ DOMAIN pipes = {0, 1}
    /\ Len(Waits) = 3
    /\ \A k \in 0..2 : child[k].phase = "reaped"
    /\ overtook

\* C16: when the parent was started with the descriptors 0, 1 and 2 open,
\* the descriptor table with which the child of stage k calls execvp has
\* the read end of pipe k - 1 as descriptor 0 when k > 0 and the parent's
\* descriptor 0 otherwise, the write end of pipe k as descriptor 1 when
\* k < num_programs - 1 and the parent's descriptor 1 otherwise, and no pipe
\* end under any other number.  The child reaches execvp: neither dup2 nor
\* close fails before.
StartedWithStdio == {0, 1, 2} \subseteq DOMAIN startFds

ExecTable(t, k) ==
    /\ {FD_STDIN, FD_STDOUT} \subseteq DOMAIN t
    /\ t[FD_STDIN] = IF k > 0 THEN PipeEnd(k - 1, "r") ELSE startFds[FD_STDIN]
    /\ t[FD_STDOUT] = IF k < num_programs - 1 THEN PipeEnd(k, "w")
                      ELSE startFds[FD_STDOUT]
    /\ PipeFds(t) \subseteq {FD_STDIN, FD_STDOUT}
    /\ \A fd \in DOMAIN t \ {FD_STDIN, FD_STDOUT} : fd \in DOMAIN startFds /\ t[fd] = startFds[fd]

\* The table at execvp: the one ChildBranch computes for a child that has
\* just been forked, the one a running program holds.
C16_ExecTable ==
    StartedWithStdio =>
      \A k \in DOMAIN child :
         /\ child[k].phase = "forked" =>
               \E r \in {ChildBranch(child[k].programs, num_programs, k, child[k].fds)} :
                  /\ r.err \in {NoErr, "execvp() failed."}
                  /\ ExecTable(r.t, k)
         /\ child[k].phase = "running" => ExecTable(child[k].fds, k)

\* The ten stages of a pipeline of MAX_NUM_PROGRAMS stages have been forked
\* by a parent started with 0, 1 and 2 open, and the last of them, which
\* inherited the ends of no pipe but the last, has not yet run.
C16_Witness ==
    /\ StartedWithStdio
    /\ num_programs = MAX_NUM_PROGRAMS
    /\ DOMAIN child = 0..(MAX_NUM_PROGRAMS - 1)
    /\ child[MAX_NUM_PROGRAMS - 1].phase = "forked"
    /\ child[0].phase = "zombie"

\* C17: a stage that has called execvp holds the write end of no pipe but
\* its own (pipe k) and the read end of no pipe but that of its
\* predecessor (pipe k - 1), in every state; the other holders of a pipe
\* end are the parent and children still between fork and execvp.  Once
\* start_program has returned for every stage and every child is past
\* execvp, the parent holds no pipe end, so that the write end of pipe p is
\* open in no process when stage p has ended and its read end in none when
\* stage p + 1 has ended.
Execed(k) == child[k].phase = "running"
Ended(k) == child[k].phase \in {"zombie", "reaped"}

AllExeced ==
    /\ num_programs >= 1
    /\ DOMAIN child = 0..(num_programs - 1)
    /\ pc # "parent"
    /\ \A k \in DOMAIN child : child[k].phase # "forked"

C17_ExclusiveEnds ==
    /\ \A k \in DOMAIN child : \A p \in DOMAIN pipes :
          (Execed(k) \/ Ended(k)) =>
             /\ HoldsEnd(child[k].fds, p, "w") => k = p
             /\ HoldsEnd(child[k].fds, p, "r") => k = p + 1
    /\ AllExeced =>
          /\ PipeFds(fds) = {}
          /\ \A p \in DOMAIN pipes :
                /\ Ended(p) => ~EndOpen(p, "w")
                /\ Ended(p + 1) => ~EndOpen(p, "r")

\* gen | gen | cat has run to the end: stage 0 was killed by SIGPIPE when it
\* wrote after stage 1 had ended, and stage 2 read the end of file of pipe 1
\* after stage 1 had ended.
C17_Witness ==
    /\ argv = <<ProgName, "gen", Delim, "gen", Delim, "cat">>
    /\ AllExeced
    /\ child[0].sig = SIGPIPE
    /\ child[2].eof
    /\ \A k \in 0..2 : Ended(k)

\* C18: a step of a child changes nothing of the parent: not where it is in
\* main, not its programs[], not its descriptors, not what was printed by
\* main, and it forks nothing.  The step of a child from fork() ends either
\* in the new program image (execvp succeeded) or in exit(EXIT_FAILURE)
\* through die().  The final message is printed at most once, as the last
\* line and by the parent that returns from main; at most num_programs
\* "Starting program" lines are printed and at most num_programs processes
\* are forked.
IsGood(l) == l.msg = "good"
IsStarting(l) == l.msg = "Starting"

C18_ChildNeverRunsMain ==
    [][ /\ \A k \in DOMAIN child :
              (child[k].phase \in {"forked", "running"} /\ child'[k] # child[k]) =>
                 /\ UNCHANGED <<pc, i, num_programs, programs, fds, log, exitCode>>
                 /\ DOMAIN child' = DOMAIN child
                 /\ child[k].phase = "forked" =>
                       \/ /\ child'[k].phase = "running"
                          /\ ~ExecFails(child'[k].cmd)
                       \/ /\ child'[k].phase = "zombie"
                          /\ child'[k].err \in {"dup2()", "close()", "execvp() failed."}
                          /\ child'[k].code = EXIT_FAILURE
        /\ Len(SelectSeq(log', IsGood)) <= 1
        /\ (log' # <<>> /\ \E l \in 1..Len(log') : IsGood(log'[l])) =>
              /\ IsGood(log'[Len(log')])
              /\ pc' = "done"
        /\ Len(SelectSeq(log', IsGood)) > Len(SelectSeq(log, IsGood)) =>
              (pc = "wait" /\ i = num_programs)
        /\ DOMAIN child' # {} =>
              /\ Cardinality(DOMAIN child') <= num_programs'
              /\ Len(SelectSeq(log', IsStarting)) <= num_programs'
      ]_vars

\* nosuch | cat has run to the end: the child of stage 0 ended in die(), the
\* child of stage 1 in the program it executed, two processes were forked
\* and the final message was printed once.
C18_Witness ==
    /\ argv = <<ProgName, "nosuch", Delim, "cat">>
    /\ pc = "done"
    /\ Cardinality(DOMAIN child) = 2
    /\ child[0].err = "execvp() failed."
    /\ child[1].err = NoErr /\ child[1].phase = "reaped"
    /\ Len(SelectSeq(log, IsGood)) = 1
    /\ Len(SelectSeq(log, IsStarting)) = 2

\* C19: when no system call fails in the kernel, no close() is called on a
\* descriptor that is not open.  In the parent the pipe descriptors kept in
\* programs[] are pairwise distinct and are exactly the pipe descriptors
\* that are open; the two that start_program is about to close are among
\* them, and once it has returned for a stage the fd_in and fd_out of the
\* stage are -1.  In a child of stage k the descriptors kept in
\* programs[k..num_programs-1] are pairwise distinct and open after the two
\* dup2 calls, and neither dup2 nor close ends the child.  The parent never
\* ends with the message of a failed close().
FdFields(progs, from, num) ==
    { <<j, f>> \in (from..(num - 1)) \X {"fd_in", "fd_out"} : progs[j][f] >= 0 }

FdsKept(progs, from, num) == { progs[x[1]][x[2]] : x \in FdFields(progs, from, num) }

Distinct(progs, from, num) ==
    Cardinality(FdsKept(progs, from, num)) = Cardinality(FdFields(progs, from, num))

Launched == IF pc \in {"wait", "done"} THEN num_programs
            ELSE IF pc \in {"fork", "parent"} THEN i
            ELSE 0

C19_NoCloseOfClosedDescriptor ==
    /\ pc \in {"pipes", "fork", "parent"} =>
          /\ Distinct(programs, 0, num_programs)
          /\ FdsKept(programs, 0, num_programs) = PipeFds(fds)
    /\ pc = "parent" =>
          ParentBranch(programs, num_programs, i, fds, FIRST_PID + i, "none").err = NoErr
    /\ pc \in {"fork", "parent", "wait"} =>
          \A k \in 0..(Launched - 1) : programs[k].fd_in = -1 /\ programs[k].fd_out = -1
    /\ \A k \in DOMAIN child :
          /\ child[k].phase = "forked" =>
                /\ Distinct(child[k].programs, k, num_programs)
                /\ \E r \in {ChildRedirect(child[k].programs, num_programs, k, child[k].fds)} :
                      /\ r.err = NoErr
                      /\ FdsKept(child[k].programs, k, num_programs) \subseteq DOMAIN r.t
                /\ ChildBranch(child[k].programs, num_programs, k, child[k].fds).err
                      \notin {"dup2()", "close()"}
          /\ child[k].err \notin {"dup2()", "close()"}
    /\ pc = "died" => DiedWith # "close()"

\* The last stage of a pipeline of MAX_NUM_PROGRAMS stages has been forked
\* by a parent that was started with the descriptors 0 and 1 closed, so
\* that the ends of its first pipe are numbered 0 and 1.
C19_Witness ==
    /\ DOMAIN startFds = {2}
    /\ num_programs = MAX_NUM_PROGRAMS
    /\ pc = "parent" /\ i = MAX_NUM_PROGRAMS - 1
    /\ child[i].phase = "forked"
    /\ child[0].phase = "zombie"

\* C20: whatever descriptors the parent was started with, the program of
\* stage k runs with the read end of pipe k - 1 as its descriptor 0 when
\* k > 0 and with the write end of pipe k as its descriptor 1 when
\* k < num_programs - 1.
C20_StreamsIntact ==
    \A k \in DOMAIN child :
       child[k].phase = "running" =>
          /\ k > 0 =>
                /\ FD_STDIN \in DOMAIN child[k].fds
                /\ child[k].fds[FD_STDIN] = PipeEnd(k - 1, "r")
          /\ k < num_programs - 1 =>
                /\ FD_STDOUT \in DOMAIN child[k].fds
                /\ child[k].fds[FD_STDOUT] = PipeEnd(k, "w")

====
